---------------------------- MODULE Spec2Model ----------------------------
(***************************************************************************)
(* Frame loop and shading of the 540_ggp DirectX 11 exercises.             *)
(*                                                                         *)
(* Four revisions of class Game are modelled side by side; `version`       *)
(* selects one of them for a whole behaviour:                              *)
(*   "Meshes"  : src/A3 - Meshes/Game.cpp                                  *)
(*   "Camera"  : src/A6 - Camera/Game.cpp                                  *)
(*   "Lights"  : src/A8 - Lights/Game.cpp                                  *)
(*   "Shadows" : src/unnamed/part_002 (shadow map + post processing)       *)
(*                                                                         *)
(* The Direct3D device context is modelled by the pipeline state `ctx`,    *)
(* the constant buffers, the contents of the render targets and the list   *)
(* `cmds` of clears, draw calls and presents issued by the running Draw.   *)
(* Matrices and vectors are abstract values: a transform, a camera pose or *)
(* a light vector is an integer that every edit advances, and a matrix    *)
(* derived from it is a record of what it was derived from.                *)
(***************************************************************************)
EXTENDS Integers, Sequences, FiniteSets, TLC

\* ------------------------------------------------------------------ bounds
\* Number of Update/Draw rounds explored.
MaxFrames == 2
\* Window sizes 1..NumSizes the window can be resized to.
NumSizes == 2
\* The user drags the "Mesh Data" sliders of the first MaxSliderEntity
\* entities only.
MaxSliderEntity == 1
\* Shading: pixel and light coordinates lie in -MaxCoord..MaxCoord.
MaxCoord == 1
\* Shading: light ranges are 1..MaxRange.
MaxRange == 2

\* ------------------------------------------------------- program constants
\* entities pushed by CreateGeometry
NumEntitiesCamera == 5
NumEntitiesLights == 8
NumEntitiesShadows == 5
\* meshes drawn by the Meshes revision (starterTriangle, diamond, hexagon)
NumMeshes == 3
\* cameras pushed by Initialize
NumCameras == 3
\* size of the lights array of the 5-light pixel shaders
ShaderLightCount == 5
LIGHT_TYPE_DIRECTIONAL == 0
LIGHT_TYPE_POINT == 1
LIGHT_TYPE_SPOT == 2
MAX_SPECULAR_EXPONENT == 256

Versions == {"Meshes", "Camera", "Lights", "Shadows"}
Sizes == 1..NumSizes
\* Values an uninitialised int member may hold (activeCamera before Initialize).
GarbageInts == {-1, 0, 7}
\* Graphics-API calls of Initialize whose result the code could look at.
ApiCalls == {"D3DReadFileToBlob", "CreateBuffer", "CreateWICTextureFromFile",
             "CreateSamplerState"}

VARIABLES
  version,          \* which revision of Game runs
  faulty,           \* environment: may graphics-API calls fail?
  failed,           \* the API calls of Initialize that failed
  winSize,          \* Window::Width/Height/AspectRatio, as a size code
  frame,            \* number of Update calls so far (totalTime)
  quit,             \* Window::Quit() was called
  pc,               \* position in the main loop / in Draw
  idx,              \* loop index of the entity loops of Draw
  entities,         \* vector<Entity>: [transform, world, dirty]
  cameras,          \* vector<shared_ptr<Camera>>: [view, proj]
  activeCamera,
  lights,           \* vector<Light>: [type, direction, position, range]
  lightNames,
  isDemoVisible,
  isBlurry,
  shadowViewMatrix,
  ppSize,           \* size of the blur and invert textures
  ctx,              \* pipeline state of Graphics::Context
  cbLocal,          \* CPU-side constant data of each SimpleShader
  cbGpu,            \* GPU constant buffers
  tex,              \* contents of back buffer, blur and invert textures
  shadowMap,        \* contents of the shadow depth texture
  cmds,             \* clears, draws and presents issued by the current Draw
  shIn,             \* pixel shader inputs (shading specification)
  shOut             \* pixel shader results (shading specification)

envVars == <<version, faulty, failed, winSize, frame, quit>>
gameVars == <<entities, cameras, activeCamera, lights, lightNames,
              isDemoVisible, isBlurry, shadowViewMatrix, ppSize>>
gpuVars == <<ctx, cbLocal, cbGpu, tex, shadowMap, cmds>>
shVars == <<shIn, shOut>>
vars == <<envVars, pc, idx, gameVars, gpuVars, shVars>>

\* ----------------------------------------------------------------- helpers
Range(s) == {s[i] : i \in DOMAIN s}

\* A render target right after ClearRenderTargetView in frame f.
Cleared(f) == [frame |-> f, ents |-> {}, sky |-> FALSE, filters |-> <<>>,
               ui |-> FALSE]

\* A constant buffer nothing was copied into yet.
NoMatrix == [eye |-> -1, dir |-> -1]
NoConstants == [owner |-> 0, world |-> -1, view |-> [cam |-> 0, rev |-> -1],
                proj |-> -1, camera |-> -1, lightView |-> NoMatrix,
                lights |-> <<>>, stamp |-> -1]

\* Transform(): identity, world matrix up to date.
NewEntity == [transform |-> 0, world |-> 0, dirty |-> FALSE]

\* Camera::Camera(aspect, position, rotation, fov, ortho) for camera number c.
NewCamera(c, aspect) == [view |-> [cam |-> c, rev |-> 0], proj |-> aspect]

\* Transform::Rotate / MoveAbsolute / Scale / SetPosition..: the transform
\* changes and its matrices are out of date until SetWorldMatrices.
Moved(e) == [e EXCEPT !.transform = @ + 1, !.dirty = TRUE]

\* Transform::SetWorldMatrices
SetWorldMatrices(e) == [e EXCEPT !.world = e.transform, !.dirty = FALSE]

\* Camera::UpdateProjectionMatrix(aspect)
UpdateProjectionMatrix(c, aspect) == [c EXCEPT !.proj = aspect]

\* Camera::Update(dt) with camera input held: the view matrix changes.
CameraMoved(c) == [c EXCEPT !.view.rev = @ + 1]

\* What a shader samples when no shadow map is bound.
NoShadowMap == [frame |-> -1, view |-> NoMatrix, drawn |-> {}]

\* One draw call: a snapshot of the pipeline state c, the constant buffers
\* gpu and the shadow map sm it runs with.
DrawCall(what, id, c, gpu, sm) ==
  [op |-> "Draw", what |-> what, id |-> id, frame |-> frame, input |-> "none",
   rtv |-> c.rtv, dsv |-> c.dsv, vs |-> c.vs, ps |-> c.ps,
   rs |-> c.rs, viewport |-> c.viewport, srv |-> c.srv,
   cb |-> gpu[c.vscb], pcb |-> gpu[c.pscb],
   shadow |-> IF "shadowMap" \in c.srv THEN sm ELSE NoShadowMap]

ClearCall(target) == [op |-> "Clear", what |-> target]

\* What a draw call of kind `what` leaves in render target content c.
Painted(c, what, id) ==
  CASE what = "entity" -> [c EXCEPT !.ents = @ \cup {id}]
    [] what = "mesh" -> [c EXCEPT !.ents = @ \cup {id}]
    [] what = "sky" -> [c EXCEPT !.sky = TRUE]
    [] what = "ui" -> [c EXCEPT !.ui = TRUE]
    [] OTHER -> c

\* tex after a draw call into the render target bound in pipeline state c.
TexAfterDraw(t, c, what, id) ==
  IF c.rtv = "none" THEN t
  ELSE [t EXCEPT ![c.rtv] = Painted(@, what, id)]

\* D3D11_VIEWPORT of the whole window / of the shadow map.
WindowViewport(size) == [kind |-> "window", size |-> size]
ShadowViewport == [kind |-> "shadowMapResolution", size |-> 0]

CbNames == {"none", "constBuffer", "vertexShader", "pixelShader", "shadowVS",
            "postProcessShader", "blurPixelShader", "invertPixelShader"}

\* ------------------------------------------------------------------- Init
\* The state after Game() = default and the framework's window/device setup.
GameInit ==
  /\ version \in Versions
  /\ failed = {}
  /\ winSize = 1
  /\ frame = 0
  /\ quit = FALSE
  /\ pc = "preinit"
  /\ idx = 0
  /\ entities = <<>>
  /\ cameras = <<>>
  /\ activeCamera \in GarbageInts
  /\ lights = <<>>
  /\ lightNames = <<>>
  /\ isDemoVisible = TRUE
  /\ isBlurry \in (IF version = "Shadows" THEN BOOLEAN ELSE {FALSE})
  /\ shadowViewMatrix = NoMatrix
  /\ ppSize = 0
  /\ ctx = [rtv |-> "back", dsv |-> "depth", vs |-> "none", ps |-> "none",
            vscb |-> "none", pscb |-> "none", rs |-> "default",
            viewport |-> WindowViewport(1), srv |-> {}]
  /\ cbLocal = [n \in CbNames |-> NoConstants]
  /\ cbGpu = [n \in CbNames |-> NoConstants]
  /\ tex = [t \in {"back", "blur", "invert"} |-> Cleared(0)]
  /\ shadowMap = [frame |-> 0, view |-> NoMatrix, drawn |-> {}]
  /\ cmds = <<>>


\* --------------------------------------------------------- shared pieces
\* The API calls of Initialize that fail in this run.
FailureChoices == IF faulty THEN {{}} \cup {{c} : c \in ApiCalls} ELSE {{}}

\* One user input per frame, as ImGui and Input report it to Update.
Event(kind, i) == [kind |-> kind, i |-> i]
BasicEvents == {Event(k, 0) : k \in {"none", "toggleDemo", "escape"}}
CameraEvents == {Event(k, 0) : k \in {"prev", "next", "camMove"}}
SliderEvents(n) ==
  {Event("slider", i) : i \in 1..(IF n < MaxSliderEntity THEN n ELSE MaxSliderEntity)}

\* Faulty variant of CameraButtons: "Previous" does not wrap around.
CameraButtons_NoWrap(ev, active, n) ==
  CASE ev.kind = "prev" -> active - 1
    [] ev.kind = "next" -> IF active = n - 1 THEN 0 ELSE active + 1
    [] OTHER -> active

\* Faulty variant of CameraButtons: "Next" stays on the last camera.
CameraButtons_NextSticks(ev, active, n) ==
  CASE ev.kind = "prev" -> IF active = 0 THEN n - 1 ELSE active - 1
    [] ev.kind = "next" -> IF active = n - 1 THEN active ELSE active + 1
    [] OTHER -> active

\* BuildUI, "Previous" and "Next" buttons: the new activeCamera.
CameraButtons(ev, active, n) ==
  CASE ev.kind = "prev" -> IF active = 0 THEN n - 1 ELSE active - 1
    [] ev.kind = "next" -> IF active = n - 1 THEN 0 ELSE active + 1
    [] OTHER -> active

\* BuildUI, "Mesh Data" window: the slider values of every entity are
\* written back with SetPosition/SetRotation/SetScale; a dragged slider
\* writes a new value.
SliderWriteBack(es, ev) ==
  [i \in DOMAIN es |->
     IF ev.kind = "slider" /\ ev.i = i THEN Moved(es[i])
     ELSE [es[i] EXCEPT !.dirty = TRUE]]

\* Faulty variant of AnimateAndSetWorld: the world matrices are set before the
\* entities are moved.
AnimateAndSetWorld_SetBeforeMove(es, movers) ==
  [i \in DOMAIN es |->
     IF i \in movers THEN Moved(SetWorldMatrices(es[i])) ELSE SetWorldMatrices(es[i])]

\* Update: Rotate / MoveAbsolute of the entities in `movers`, then
\* SetWorldMatrices of every entity.
AnimateAndSetWorld(es, movers) ==
  [i \in DOMAIN es |->
     SetWorldMatrices(IF i \in movers THEN Moved(es[i]) ELSE es[i])]

\* cameras[activeCamera]->Update(deltaTime)
UpdateActiveCamera(cs, active, ev) ==
  [c \in DOMAIN cs |->
     IF c = active + 1 /\ ev.kind = "camMove" THEN CameraMoved(cs[c])
     ELSE cs[c]]

\* Initialize: the three cameras, built with the current aspect ratio.
InitialCameras == [c \in 1..NumCameras |-> NewCamera(c, winSize)]

\* Faulty variant of FrameStartCmds: the depth buffer is not cleared.
FrameStartCmds_NoDepthClear == <<ClearCall("back")>>

\* Frame START of Draw: clear the back buffer and the depth buffer.
FrameStartCmds == <<ClearCall("back"), ClearCall("depth")>>

\* ImGui::Render + ImGui_ImplDX11_RenderDrawData: one draw with ImGui's own
\* shaders and buffers; the backend restores the pipeline state afterwards.
ImGuiContext(c) == [c EXCEPT !.vs = "imguiVS", !.ps = "imguiPS",
                             !.vscb = "none", !.pscb = "none",
                             !.srv = @ \cup {"uiTextures"}]

DrawUI ==
  /\ pc = "DrawUI"
  /\ cmds' = Append(cmds, DrawCall("ui", 0, ImGuiContext(ctx), cbGpu, shadowMap))
  /\ tex' = TexAfterDraw(tex, ctx, "ui", 0)
  /\ pc' = "Present"
  /\ UNCHANGED <<envVars, idx, gameVars, ctx, cbLocal, cbGpu, shadowMap, shVars>>

\* Frame END of Draw: Present, then re-bind back buffer and depth buffer.
PresentCall == [op |-> "Present", what |-> "back", shown |-> tex["back"]]

FrameEnd ==
  /\ pc = "Present"
  /\ cmds' = Append(cmds, PresentCall)
  /\ ctx' = [ctx EXCEPT !.rtv = "back", !.dsv = "depth"]
  /\ pc' = "Update"
  /\ UNCHANGED <<envVars, idx, gameVars, cbLocal, cbGpu, tex, shadowMap, shVars>>

\* Faulty variant of ResizeCameras: only the active camera is updated.
ResizeCameras_ActiveOnly(cs, aspect) ==
  IF Len(cs) > 0
  THEN [c \in DOMAIN cs |->
          IF c = activeCamera + 1 THEN UpdateProjectionMatrix(cs[c], aspect) ELSE cs[c]]
  ELSE cs

\* OnResize of the revisions with cameras: every camera gets the new aspect
\* ratio. The window (and with it the viewport the framework sets) already
\* has its new size when the handler runs.
ResizeCameras(cs, aspect) ==
  IF Len(cs) > 0
  THEN [c \in DOMAIN cs |-> UpdateProjectionMatrix(cs[c], aspect)]
  ELSE cs

ResizeWindow(size) ==
  /\ pc \in {"preinit", "Update"}
  /\ ~quit
  /\ winSize' = size
  /\ ctx' = [ctx EXCEPT !.viewport = WindowViewport(size)]
  /\ UNCHANGED <<version, faulty, failed, frame, quit, pc, idx>>
  /\ UNCHANGED <<cbLocal, cbGpu, tex, shadowMap, cmds, shVars>>

\* ------------------------------------------------- Meshes (A3 - Meshes)
Meshes_Initialize ==
  /\ version = "Meshes" /\ pc = "preinit"
  /\ \E f \in FailureChoices :
     \E outcome \in (IF "D3DReadFileToBlob" \in f THEN {"crash", "run"} ELSE {"run"}) :
       /\ failed' = f
       /\ IF outcome = "crash"
          THEN pc' = "crashed" /\ ctx' = ctx
          ELSE /\ pc' = "Update"
               /\ ctx' = [ctx EXCEPT !.vs = "vertexShader", !.ps = "pixelShader"]
  /\ UNCHANGED <<version, faulty, winSize, frame, quit, idx, gameVars>>
  /\ UNCHANGED <<cbLocal, cbGpu, tex, shadowMap, cmds, shVars>>

Meshes_OnResize ==
  /\ version = "Meshes"
  /\ \E size \in Sizes : ResizeWindow(size)
  /\ UNCHANGED gameVars

Meshes_Update ==
  /\ version = "Meshes" /\ pc = "Update" /\ ~quit /\ frame < MaxFrames
  /\ \E ev \in BasicEvents :
       /\ isDemoVisible' = IF ev.kind = "toggleDemo" THEN ~isDemoVisible ELSE isDemoVisible
       /\ quit' = (ev.kind = "escape")
  /\ frame' = frame + 1
  /\ pc' = "DrawClear"
  /\ UNCHANGED <<version, faulty, failed, winSize, idx>>
  /\ UNCHANGED <<entities, cameras, activeCamera, lights, lightNames, isBlurry,
                 shadowViewMatrix, ppSize, gpuVars, shVars>>

Meshes_DrawClear ==
  /\ version = "Meshes" /\ pc = "DrawClear"
  /\ cmds' = FrameStartCmds
  /\ tex' = [tex EXCEPT !["back"] = Cleared(frame)]
  /\ pc' = "DrawGeometry"
  /\ UNCHANGED <<envVars, idx, gameVars, ctx, cbLocal, cbGpu, shadowMap, shVars>>

\* starterTriangle->Draw(); diamond->Draw(); hexagon->Draw();
Meshes_DrawGeometry ==
  /\ version = "Meshes" /\ pc = "DrawGeometry"
  /\ cmds' = cmds \o [m \in 1..NumMeshes |-> DrawCall("mesh", m, ctx, cbGpu, shadowMap)]
  /\ tex' = [tex EXCEPT !["back"].ents = @ \cup (1..NumMeshes)]
  /\ pc' = "DrawUI"
  /\ UNCHANGED <<envVars, idx, gameVars, ctx, cbLocal, cbGpu, shadowMap, shVars>>

Meshes_DrawUI == version = "Meshes" /\ DrawUI

Meshes_Present == version = "Meshes" /\ FrameEnd

\* ------------------------------------------------- Camera (A6 - Camera)
Camera_Initialize ==
  /\ version = "Camera" /\ pc = "preinit"
  /\ \E f \in FailureChoices :
     \E outcome \in (IF "D3DReadFileToBlob" \in f THEN {"crash", "run"} ELSE {"run"}) :
       /\ failed' = f
       /\ IF outcome = "crash"
          THEN /\ pc' = "crashed"
               /\ UNCHANGED <<entities, cameras, activeCamera, ctx>>
          ELSE /\ pc' = "Update"
               /\ entities' = [i \in 1..NumEntitiesCamera |-> NewEntity]
               /\ ctx' = [ctx EXCEPT !.vs = "vertexShader", !.ps = "pixelShader",
                                     !.vscb = "constBuffer"]
               /\ cameras' = InitialCameras
               /\ activeCamera' = 0
  /\ UNCHANGED <<version, faulty, winSize, frame, quit, idx>>
  /\ UNCHANGED <<lights, lightNames, isDemoVisible, isBlurry, shadowViewMatrix, ppSize>>
  /\ UNCHANGED <<cbLocal, cbGpu, tex, shadowMap, cmds, shVars>>

Camera_OnResize ==
  /\ version = "Camera"
  /\ \E size \in Sizes :
       /\ ResizeWindow(size)
       /\ cameras' = ResizeCameras(cameras, size)
  /\ UNCHANGED <<entities, activeCamera, lights, lightNames, isDemoVisible,
                 isBlurry, shadowViewMatrix, ppSize>>

\* Update: BuildUI, camera update, Rotate(entities[0]),
\* MoveAbsolute(entities[2]), MoveAbsolute(entities[3]), SetWorldMatrices.
Camera_Update ==
  /\ version = "Camera" /\ pc = "Update" /\ ~quit /\ frame < MaxFrames
  /\ \E ev \in BasicEvents \cup CameraEvents \cup SliderEvents(Len(entities)) :
       /\ isDemoVisible' = IF ev.kind = "toggleDemo" THEN ~isDemoVisible ELSE isDemoVisible
       /\ activeCamera' = CameraButtons(ev, activeCamera, Len(cameras))
       /\ cameras' = UpdateActiveCamera(cameras, activeCamera', ev)
       /\ entities' = AnimateAndSetWorld(SliderWriteBack(entities, ev), {1, 3, 4})
       /\ quit' = (ev.kind = "escape")
  /\ frame' = frame + 1
  /\ pc' = "DrawClear"
  /\ UNCHANGED <<version, faulty, failed, winSize, idx>>
  /\ UNCHANGED <<lights, lightNames, isBlurry, shadowViewMatrix, ppSize, gpuVars, shVars>>

Camera_DrawClear ==
  /\ version = "Camera" /\ pc = "DrawClear"
  /\ cmds' = FrameStartCmds
  /\ tex' = [tex EXCEPT !["back"] = Cleared(frame)]
  /\ pc' = "DrawEntities"
  /\ idx' = 1
  /\ UNCHANGED <<envVars, gameVars, ctx, cbLocal, cbGpu, shadowMap, shVars>>

\* ConstructShaderData(world, view, projection): Map, memcpy, Unmap.
Camera_ConstructShaderData(i) ==
  [owner |-> i, world |-> entities[i].world,
   view |-> cameras[activeCamera + 1].view,
   proj |-> cameras[activeCamera + 1].proj,
   camera |-> activeCamera, lightView |-> NoMatrix, lights |-> <<>>,
   stamp |-> frame]

\* One round of the entity loop of Draw. With the constant buffer missing
\* (CreateBuffer failed) Map leaves pData null and memcpy writes through it.
Camera_DrawEntity ==
  /\ version = "Camera" /\ pc = "DrawEntities"
  /\ \E outcome \in (IF "CreateBuffer" \in failed THEN {"crash", "run"} ELSE {"run"}) :
       IF outcome = "crash"
       THEN /\ pc' = "crashed"
            /\ UNCHANGED <<idx, cbGpu, cmds, tex>>
       ELSE /\ cbGpu' = IF "CreateBuffer" \in failed THEN cbGpu
                        ELSE [cbGpu EXCEPT !["constBuffer"] = Camera_ConstructShaderData(idx)]
            /\ cmds' = Append(cmds, DrawCall("entity", idx, ctx, cbGpu', shadowMap))
            /\ tex' = TexAfterDraw(tex, ctx, "entity", idx)
            /\ idx' = idx + 1
            /\ pc' = IF idx = Len(entities) THEN "DrawUI" ELSE "DrawEntities"
  /\ UNCHANGED <<envVars, gameVars, ctx, cbLocal, shadowMap, shVars>>

Camera_DrawUI == version = "Camera" /\ DrawUI

Camera_Present == version = "Camera" /\ FrameEnd

\* ------------------------------------------------- Lights (A8 - Lights)
\* CreateGeometry: entity number i (from 0) is moved once if i is odd and
\* i / 2 times more; entities[5] is rotated as well.
Lights_InitialEntities ==
  [i \in 1..NumEntitiesLights |->
     LET k == ((i - 1) % 2) + ((i - 1) \div 2) + (IF i - 1 = 5 THEN 1 ELSE 0)
     IN [transform |-> k, world |-> 0, dirty |-> k > 0]]

\* Light light = {}; with the members CreateGeometry sets.
DirectionalLight(dir) ==
  [type |-> LIGHT_TYPE_DIRECTIONAL, direction |-> dir, position |-> 0, range |-> 0]
PointLight(pos) ==
  [type |-> LIGHT_TYPE_POINT, direction |-> 0, position |-> pos, range |-> 8]

\* Faulty variant of Lights_CreateLights: the second point light is not pushed.
Lights_CreateLights_Four ==
  <<DirectionalLight(1), DirectionalLight(1), DirectionalLight(1), PointLight(0)>>

\* CreateGeometry: 3 directional lights, then 2 point lights.
Lights_CreateLights ==
  <<DirectionalLight(1), DirectionalLight(1), DirectionalLight(1),
    PointLight(0), PointLight(1)>>

Lights_LightNames == <<"Yellow", "Cyan", "Magenta", "Red", "Blue">>

\* BuildUI, light windows: the sliders of lights `dirs` edit direction, those
\* of lights `poss` edit position.
LightSliders(ls, ev) ==
  [i \in DOMAIN ls |->
     IF ev.kind = "lightDir" /\ ev.i = i THEN [ls[i] EXCEPT !.direction = @ + 1]
     ELSE IF ev.kind = "lightPos" /\ ev.i = i THEN [ls[i] EXCEPT !.position = @ + 1]
     ELSE ls[i]]

Lights_LightEvents ==
  {Event("lightDir", i) : i \in 1..3} \cup {Event("lightPos", i) : i \in 4..5}

Lights_Initialize ==
  /\ version = "Lights" /\ pc = "preinit"
  /\ \E f \in FailureChoices : failed' = f
  /\ entities' = Lights_InitialEntities
  /\ lights' = Lights_CreateLights
  /\ lightNames' = Lights_LightNames
  /\ cameras' = InitialCameras
  /\ activeCamera' = 0
  /\ pc' = "Update"
  /\ UNCHANGED <<version, faulty, winSize, frame, quit, idx>>
  /\ UNCHANGED <<isDemoVisible, isBlurry, shadowViewMatrix, ppSize, gpuVars, shVars>>

Lights_OnResize ==
  /\ version = "Lights"
  /\ \E size \in Sizes :
       /\ ResizeWindow(size)
       /\ cameras' = ResizeCameras(cameras, size)
  /\ UNCHANGED <<entities, activeCamera, lights, lightNames, isDemoVisible,
                 isBlurry, shadowViewMatrix, ppSize>>

\* Update: BuildUI, camera update, Rotate of entities[0], [3] and [7],
\* SetWorldMatrices.
Lights_Update ==
  /\ version = "Lights" /\ pc = "Update" /\ ~quit /\ frame < MaxFrames
  /\ \E ev \in BasicEvents \cup CameraEvents \cup SliderEvents(Len(entities))
               \cup Lights_LightEvents :
       /\ isDemoVisible' = IF ev.kind = "toggleDemo" THEN ~isDemoVisible ELSE isDemoVisible
       /\ lights' = LightSliders(lights, ev)
       /\ activeCamera' = CameraButtons(ev, activeCamera, Len(cameras))
       /\ cameras' = UpdateActiveCamera(cameras, activeCamera', ev)
       /\ entities' = AnimateAndSetWorld(SliderWriteBack(entities, ev), {1, 4, 8})
       /\ quit' = (ev.kind = "escape")
  /\ frame' = frame + 1
  /\ pc' = "DrawClear"
  /\ UNCHANGED <<version, faulty, failed, winSize, idx>>
  /\ UNCHANGED <<lightNames, isBlurry, shadowViewMatrix, ppSize, gpuVars, shVars>>

Lights_DrawClear ==
  /\ version = "Lights" /\ pc = "DrawClear"
  /\ cmds' = FrameStartCmds
  /\ tex' = [tex EXCEPT !["back"] = Cleared(frame)]
  /\ pc' = "DrawEntities"
  /\ idx' = 1
  /\ UNCHANGED <<envVars, gameVars, ctx, cbLocal, cbGpu, shadowMap, shVars>>

\* Faulty variant of Lights_ConstructShaderData: the world matrix is read from
\* entities[0] whatever entity is drawn.
Lights_ConstructShaderData_FirstEntity(local, i) ==
  [local EXCEPT
     !["vertexShader"] =
        [owner |-> i, world |-> entities[1].world,
         view |-> cameras[activeCamera + 1].view,
         proj |-> cameras[activeCamera + 1].proj,
         camera |-> activeCamera, lightView |-> NoMatrix, lights |-> <<>>,
         stamp |-> frame],
     !["pixelShader"] =
        [@ EXCEPT !.owner = i, !.camera = activeCamera, !.lights = lights,
                  !.stamp = frame]]

\* ConstructShaderData(entity, ambient, totalTime): the data set on the
\* entity's vertex shader and pixel shader, as a function on buffer names.
Lights_ConstructShaderData(local, i) ==
  [local EXCEPT
     !["vertexShader"] =
        [owner |-> i, world |-> entities[i].world,
         view |-> cameras[activeCamera + 1].view,
         proj |-> cameras[activeCamera + 1].proj,
         camera |-> activeCamera, lightView |-> NoMatrix, lights |-> <<>>,
         stamp |-> frame],
     !["pixelShader"] =
        [@ EXCEPT !.owner = i, !.camera = activeCamera, !.lights = lights,
                  !.stamp = frame]]

\* CopyAllBufferData of the two shaders.
CopyMaterialBuffers(gpu, local) ==
  [gpu EXCEPT !["vertexShader"] = local["vertexShader"],
              !["pixelShader"] = local["pixelShader"]]

\* SetShader of the material's vertex and pixel shader.
MaterialShaders(c) ==
  [c EXCEPT !.vs = "vertexShader", !.vscb = "vertexShader",
            !.ps = "pixelShader", !.pscb = "pixelShader"]

Lights_DrawEntity ==
  /\ version = "Lights" /\ pc = "DrawEntities"
  /\ ctx' = MaterialShaders(ctx)
  /\ cbLocal' = Lights_ConstructShaderData(cbLocal, idx)
  /\ cbGpu' = CopyMaterialBuffers(cbGpu, cbLocal')
  /\ cmds' = Append(cmds, DrawCall("entity", idx, ctx', cbGpu', shadowMap))
  /\ tex' = TexAfterDraw(tex, ctx', "entity", idx)
  /\ idx' = idx + 1
  /\ pc' = IF idx = Len(entities) THEN "DrawUI" ELSE "DrawEntities"
  /\ UNCHANGED <<envVars, gameVars, shadowMap, shVars>>

Lights_DrawUI == version = "Lights" /\ DrawUI

Lights_Present == version = "Lights" /\ FrameEnd

\* ------------------------------- Shadows (shadow map + post processing)
\* CreateGeometry: entities[0..3] are moved once, entities[4] is moved and
\* scaled.
Shadow_InitialEntities ==
  [i \in 1..NumEntitiesShadows |->
     LET k == IF i = NumEntitiesShadows THEN 2 ELSE 1
     IN [transform |-> k, world |-> 0, dirty |-> TRUE]]

\* CreateGeometry: one directional light, one point light.
Shadow_CreateLights == <<DirectionalLight(1), PointLight(1)>>

Shadow_LightNames == <<"Yellow", "Blue">>

\* XMMatrixLookToLH(direction * -20, direction, up)
XMMatrixLookToLH(dir) == [eye |-> dir * (-20), dir |-> dir]

\* ConstructShadowMap: the light view matrix, from lights[0].direction.
ConstructShadowMap(ls) == XMMatrixLookToLH(ls[1].direction)

\* SetupPostProcesses: the blur and invert textures get the window's size.
SetupPostProcesses == winSize

Shadow_LightEvents == {Event("lightDir", 1), Event("lightPos", 2)}

Shadow_Initialize ==
  /\ version = "Shadows" /\ pc = "preinit"
  /\ \E f \in FailureChoices : failed' = f
  /\ entities' = Shadow_InitialEntities
  /\ lights' = Shadow_CreateLights
  /\ lightNames' = Shadow_LightNames
  /\ cameras' = InitialCameras
  /\ activeCamera' = 0
  /\ shadowViewMatrix' = ConstructShadowMap(lights')
  /\ ppSize' = SetupPostProcesses
  /\ pc' = "Update"
  /\ UNCHANGED <<version, faulty, winSize, frame, quit, idx>>
  /\ UNCHANGED <<isDemoVisible, isBlurry, gpuVars, shVars>>

Shadow_OnResize ==
  /\ version = "Shadows"
  /\ \E size \in Sizes :
       /\ ResizeWindow(size)
       /\ cameras' = ResizeCameras(cameras, size)
  /\ UNCHANGED <<entities, activeCamera, lights, lightNames, isDemoVisible,
                 isBlurry, shadowViewMatrix, ppSize>>

\* Update: BuildUI, camera update, Rotate of entities[0] and [3],
\* SetWorldMatrices.
Shadow_Update ==
  /\ version = "Shadows" /\ pc = "Update" /\ ~quit /\ frame < MaxFrames
  /\ \E ev \in BasicEvents \cup CameraEvents \cup SliderEvents(Len(entities))
               \cup Shadow_LightEvents \cup {Event("toggleBlur", 0)} :
       /\ isDemoVisible' = IF ev.kind = "toggleDemo" THEN ~isDemoVisible ELSE isDemoVisible
       /\ isBlurry' = IF ev.kind = "toggleBlur" THEN ~isBlurry ELSE isBlurry
       /\ lights' = LightSliders(lights, ev)
       /\ activeCamera' = CameraButtons(ev, activeCamera, Len(cameras))
       /\ cameras' = UpdateActiveCamera(cameras, activeCamera', ev)
       /\ entities' = AnimateAndSetWorld(SliderWriteBack(entities, ev), {1, 4})
       /\ quit' = (ev.kind = "escape")
  /\ frame' = frame + 1
  /\ pc' = "DrawClear"
  /\ UNCHANGED <<version, faulty, failed, winSize, idx>>
  /\ UNCHANGED <<lightNames, shadowViewMatrix, ppSize, gpuVars, shVars>>

\* Frame START: clear back buffer, blur and invert targets and the depth
\* buffer, bind the blur target.
Shadow_DrawClear ==
  /\ version = "Shadows" /\ pc = "DrawClear"
  /\ cmds' = <<ClearCall("back"), ClearCall("blur"), ClearCall("invert"),
               ClearCall("depth")>>
  /\ tex' = [t \in DOMAIN tex |-> Cleared(frame)]
  /\ ctx' = [ctx EXCEPT !.rtv = "blur", !.dsv = "depth"]
  /\ pc' = "ShadowBegin"
  /\ UNCHANGED <<envVars, idx, gameVars, cbLocal, cbGpu, shadowMap, shVars>>

\* Render Shadow Map, up to the entity loop.
Shadow_ShadowBegin ==
  /\ version = "Shadows" /\ pc = "ShadowBegin"
  /\ shadowMap' = [frame |-> frame, view |-> NoMatrix, drawn |-> {}]
  /\ cmds' = Append(cmds, ClearCall("shadowMap"))
  /\ ctx' = [ctx EXCEPT !.rtv = "none", !.dsv = "shadowMap", !.ps = "none",
                        !.rs = "shadowRasterizer", !.viewport = ShadowViewport,
                        !.vs = "shadowVS", !.vscb = "shadowVS"]
  /\ cbLocal' = [cbLocal EXCEPT !["shadowVS"].lightView = shadowViewMatrix]
  /\ idx' = 1
  /\ pc' = "ShadowEntities"
  /\ UNCHANGED <<envVars, gameVars, cbGpu, tex, shVars>>

\* Faulty variant of ShadowMapAfterDraw: only the first entity reaches the map.
ShadowMapAfterDraw_FirstOnly(sm, c, call) ==
  IF c.dsv = "shadowMap" /\ call.id = 1
  THEN [sm EXCEPT !.view = call.cb.lightView,
                  !.drawn = @ \cup {<<call.id, call.cb.world>>}]
  ELSE sm

\* The depth a draw call writes into the shadow map, when it is the bound
\* depth target.
ShadowMapAfterDraw(sm, c, call) ==
  IF c.dsv = "shadowMap"
  THEN [sm EXCEPT !.view = call.cb.lightView,
                  !.drawn = @ \cup {<<call.id, call.cb.world>>}]
  ELSE sm

\* One round of the entity loop of the shadow pass.
Shadow_ShadowEntity ==
  /\ version = "Shadows" /\ pc = "ShadowEntities"
  /\ cbLocal' = [cbLocal EXCEPT !["shadowVS"].world = entities[idx].world,
                                !["shadowVS"].owner = idx,
                                !["shadowVS"].stamp = frame]
  /\ cbGpu' = [cbGpu EXCEPT !["shadowVS"] = cbLocal'["shadowVS"]]
  /\ LET call == DrawCall("shadow", idx, ctx, cbGpu', shadowMap)
     IN /\ cmds' = Append(cmds, call)
        /\ shadowMap' = ShadowMapAfterDraw(shadowMap, ctx, call)
  /\ idx' = idx + 1
  /\ pc' = IF idx = Len(entities) THEN "ShadowEnd" ELSE "ShadowEntities"
  /\ UNCHANGED <<envVars, gameVars, ctx, tex, shVars>>

\* Faulty variant of Shadow_ShadowEnd: the rasterizer state is not reset.
Shadow_ShadowEnd_KeepRasterizer ==
  /\ version = "Shadows" /\ pc = "ShadowEnd"
  /\ ctx' = [ctx EXCEPT !.viewport = WindowViewport(winSize),
                        !.rtv = IF isBlurry THEN "blur" ELSE "back",
                        !.dsv = "depth"]
  /\ idx' = 1
  /\ pc' = "DrawEntities"
  /\ UNCHANGED <<envVars, gameVars, cbLocal, cbGpu, tex, shadowMap, cmds, shVars>>

\* End of the shadow pass: window viewport, main render target, default
\* rasterizer state.
Shadow_ShadowEnd ==
  /\ version = "Shadows" /\ pc = "ShadowEnd"
  /\ ctx' = [ctx EXCEPT !.viewport = WindowViewport(winSize),
                        !.rtv = IF isBlurry THEN "blur" ELSE "back",
                        !.dsv = "depth",
                        !.rs = "default"]
  /\ idx' = 1
  /\ pc' = "DrawEntities"
  /\ UNCHANGED <<envVars, gameVars, cbLocal, cbGpu, tex, shadowMap, cmds, shVars>>

\* ConstructShaderData(entity, totalTime) of the shadow revision.
Shadow_ConstructShaderData(local, i) ==
  [local EXCEPT
     !["vertexShader"] =
        [owner |-> i, world |-> entities[i].world,
         view |-> cameras[activeCamera + 1].view,
         proj |-> cameras[activeCamera + 1].proj,
         camera |-> activeCamera, lightView |-> shadowViewMatrix,
         lights |-> <<>>, stamp |-> frame],
     !["pixelShader"] =
        [@ EXCEPT !.owner = i, !.camera = activeCamera, !.lights = lights,
                  !.stamp = frame]]

\* The shader resources ConstructShaderData binds for the pixel shader.
Shadow_BindResources(c) ==
  [c EXCEPT !.srv = @ \cup {"materialTextures", "shadowMap"}]

\* One round of the entity loop of the main pass.
Shadow_DrawEntity ==
  /\ version = "Shadows" /\ pc = "DrawEntities"
  /\ ctx' = Shadow_BindResources(MaterialShaders(ctx))
  /\ cbLocal' = Shadow_ConstructShaderData(cbLocal, idx)
  /\ cbGpu' = CopyMaterialBuffers(cbGpu, cbLocal')
  /\ cmds' = Append(cmds, DrawCall("entity", idx, ctx', cbGpu', shadowMap))
  /\ tex' = TexAfterDraw(tex, ctx', "entity", idx)
  /\ idx' = idx + 1
  /\ pc' = IF idx = Len(entities) THEN "DrawSky" ELSE "DrawEntities"
  /\ UNCHANGED <<envVars, gameVars, shadowMap, shVars>>

\* skyBox->Draw(camera), then the choice of running PostRender.
Shadow_DrawSky ==
  /\ version = "Shadows" /\ pc = "DrawSky"
  /\ ctx' = [ctx EXCEPT !.vs = "skyVS", !.ps = "skyPS", !.vscb = "none",
                        !.pscb = "none", !.srv = @ \cup {"skyTexture"}]
  /\ cmds' = Append(cmds, DrawCall("sky", 0, ctx', cbGpu, shadowMap))
  /\ tex' = TexAfterDraw(tex, ctx', "sky", 0)
  /\ pc' = IF isBlurry THEN "PostRender" ELSE "DrawUI"
  /\ UNCHANGED <<envVars, idx, gameVars, cbLocal, cbGpu, shadowMap, shVars>>

\* A full-screen triangle drawn with pixel shader `filter`, which samples
\* texture `input`: the draw call, and the target's new content.
FullScreenPass(filter, input, c) ==
  [DrawCall(filter, 0, c, cbGpu, shadowMap) EXCEPT !.input = input]

Filtered(content, filter) == [content EXCEPT !.filters = Append(@, filter)]

\* PostRender: the pipeline state of the blur pass and of the invert pass.
BlurPassContext(c) ==
  [c EXCEPT !.rtv = "invert", !.dsv = "none", !.vs = "postProcessShader",
            !.vscb = "postProcessShader", !.ps = "blurPixelShader",
            !.pscb = "blurPixelShader", !.srv = @ \cup {"blur"}]

\* Faulty variant of InvertPassContext: the pass writes the blur texture.
InvertPassContext_IntoBlur(c) ==
  [c EXCEPT !.rtv = "blur", !.dsv = "none", !.ps = "invertPixelShader",
            !.pscb = "invertPixelShader", !.srv = @ \cup {"invert"}]

InvertPassContext(c) ==
  [c EXCEPT !.rtv = "back", !.dsv = "none", !.ps = "invertPixelShader",
            !.pscb = "invertPixelShader", !.srv = @ \cup {"invert"}]

\* Faulty variant of PostRender: the invert pass is left out, the blur pass writes
\* the back buffer.
PostRender_BlurOnly(c) ==
  <<FullScreenPass("blur", "blur", [BlurPassContext(c) EXCEPT !.rtv = "back"])>>

\* PostRender: blur pass into the invert target, invert pass into the back
\* buffer; the list of the two draw calls.
PostRender(c) ==
  <<FullScreenPass("blur", "blur", BlurPassContext(c)),
    FullScreenPass("invert", "invert", InvertPassContext(BlurPassContext(c)))>>

\* The pipeline states PostRender goes through, one per binding call:
\* invert target bound, blur texture bound as input, back buffer bound,
\* invert texture bound as input.
PostRenderStates(c) ==
  <<[c EXCEPT !.rtv = "invert", !.dsv = "none"],
    BlurPassContext(c),
    [BlurPassContext(c) EXCEPT !.rtv = "back"],
    InvertPassContext(BlurPassContext(c))>>

\* The render targets after the passes of `calls` ran in order.
RECURSIVE TexAfterPasses(_, _)
TexAfterPasses(t, calls) ==
  IF calls = <<>> THEN t
  ELSE LET call == Head(calls)
       IN TexAfterPasses([t EXCEPT ![call.rtv] = Filtered(t[call.input], call.what)],
                         Tail(calls))

Shadow_PostRender ==
  /\ version = "Shadows" /\ pc = "PostRender"
  /\ cmds' = cmds \o PostRender(ctx)
  /\ tex' = TexAfterPasses(tex, PostRender(ctx))
  /\ ctx' = InvertPassContext(BlurPassContext(ctx))
  /\ pc' = "DrawUI"
  /\ UNCHANGED <<envVars, idx, gameVars, cbLocal, cbGpu, shadowMap, shVars>>

\* ImGui draw of the shadow revision: BuildUI also shows the shadow map
\* with ImGui::Image.
Shadow_DrawUI ==
  /\ version = "Shadows" /\ pc = "DrawUI"
  /\ cmds' = Append(cmds, DrawCall("ui", 0,
                 [ImGuiContext(ctx) EXCEPT !.srv = @ \cup {"shadowMap"}],
                 cbGpu, shadowMap))
  /\ tex' = TexAfterDraw(tex, ctx, "ui", 0)
  /\ pc' = "Present"
  /\ UNCHANGED <<envVars, idx, gameVars, ctx, cbLocal, cbGpu, shadowMap, shVars>>

\* Faulty variant of Shadow_Present: the targets are not bound again.
Shadow_Present_NoRebind ==
  /\ version = "Shadows" /\ pc = "Present"
  /\ cmds' = Append(cmds, PresentCall)
  /\ ctx' = [ctx EXCEPT !.srv = {}]
  /\ pc' = "Update"
  /\ UNCHANGED <<envVars, idx, gameVars, cbLocal, cbGpu, tex, shadowMap, shVars>>

\* Faulty variant of Shadow_Present: the pixel shader resources stay bound.
Shadow_Present_NoUnbind ==
  /\ version = "Shadows" /\ pc = "Present"
  /\ cmds' = Append(cmds, PresentCall)
  /\ ctx' = [ctx EXCEPT !.rtv = "back", !.dsv = "depth"]
  /\ pc' = "Update"
  /\ UNCHANGED <<envVars, idx, gameVars, cbLocal, cbGpu, tex, shadowMap, shVars>>

\* Frame END: Present, re-bind back buffer and depth buffer, unbind all
\* pixel shader resources.
Shadow_Present ==
  /\ version = "Shadows" /\ pc = "Present"
  /\ cmds' = Append(cmds, PresentCall)
  /\ ctx' = [ctx EXCEPT !.rtv = "back", !.dsv = "depth", !.srv = {}]
  /\ pc' = "Update"
  /\ UNCHANGED <<envVars, idx, gameVars, cbLocal, cbGpu, tex, shadowMap, shVars>>

\* ------------------------------------------------------- specification
Next ==
  \/ Meshes_Initialize \/ Meshes_OnResize \/ Meshes_Update
  \/ Meshes_DrawClear \/ Meshes_DrawGeometry \/ Meshes_DrawUI \/ Meshes_Present
  \/ Camera_Initialize \/ Camera_OnResize \/ Camera_Update
  \/ Camera_DrawClear \/ Camera_DrawEntity \/ Camera_DrawUI \/ Camera_Present
  \/ Lights_Initialize \/ Lights_OnResize \/ Lights_Update
  \/ Lights_DrawClear \/ Lights_DrawEntity \/ Lights_DrawUI \/ Lights_Present
  \/ Shadow_Initialize \/ Shadow_OnResize \/ Shadow_Update
  \/ Shadow_DrawClear \/ Shadow_ShadowBegin \/ Shadow_ShadowEntity
  \/ Shadow_ShadowEnd \/ Shadow_DrawEntity \/ Shadow_DrawSky
  \/ Shadow_PostRender \/ Shadow_DrawUI \/ Shadow_Present

\* No pixel is shaded by hand while the frame loop is explored.
IdleShading == shIn = 0 /\ shOut = 0

Init == GameInit /\ faulty = FALSE /\ IdleShading

Spec == Init /\ [][Next]_vars

\* The same program with a graphics API whose calls may fail.
InitFaulty == GameInit /\ faulty = TRUE /\ IdleShading

SpecFaulty == InitFaulty /\ [][Next]_vars

\* ---------------------------------------------------------------- shading
\* The pixel shaders, evaluated on one axis: a float3 is its x component, so
\* dot is the product, normalize the sign and distance the absolute
\* difference.  A value that attenuation scaled is a fraction num/den.
Rat(n) == [num |-> n, den |-> 1]
RatMul(a, b) == [num |-> a.num * b.num, den |-> a.den * b.den]
RatAdd(a, b) == [num |-> a.num * b.den + b.num * a.den, den |-> a.den * b.den]
RatEq(a, b) == a.num * b.den = b.num * a.den
RatLeq(a, b) == a.num * b.den <= b.num * a.den

normalize(v) == IF v > 0 THEN 1 ELSE -1
dot(a, b) == a * b
saturate(x) == IF x < 0 THEN 0 ELSE IF x > 1 THEN 1 ELSE x
reflect(i, n) == i - 2 * n * dot(i, n)
\* pow of a base that saturate left at 0 or 1
pow(x, e) == IF e = 0 THEN 1 ELSE x

NewLight(t, dir, pos, r) ==
  [type |-> t, direction |-> dir, range |-> r, position |-> pos,
   intensity |-> 1, color |-> 1]

Coords == (0 - MaxCoord)..MaxCoord
Directions == Coords \ {0}
Ranges == 1..MaxRange
LightTypes == {LIGHT_TYPE_DIRECTIONAL, LIGHT_TYPE_POINT, LIGHT_TYPE_SPOT}
LightInputs ==
  {NewLight(t, d, p, r) : t \in LightTypes, d \in Directions, p \in Coords, r \in Ranges}
\* Values an uninitialised float3 local may hold (finalLight of the 5-light
\* shaders).
GarbageColors == {0, 1}

\* The lights array the shaders are fed when the user has touched nothing:
\* three directional lights, then two point lights outside the pixels.
ShadeDefaultLights ==
  <<NewLight(LIGHT_TYPE_DIRECTIONAL, 1, 0, 1),
    NewLight(LIGHT_TYPE_DIRECTIONAL, -1, 0, 1),
    NewLight(LIGHT_TYPE_DIRECTIONAL, 1, 0, 1),
    NewLight(LIGHT_TYPE_POINT, 1, MaxCoord + 1, MaxRange),
    NewLight(LIGHT_TYPE_POINT, 1, 0 - (MaxCoord + 1), MaxRange)>>

\* One pixel and the constant buffer it is shaded with.  The pixel never
\* lies on a point light or on the camera (normalize of the zero vector is
\* not a number).
ShadeInputs ==
  {in \in
     {[normal |-> n, worldPosition |-> w, cameraPos |-> c, colorTint |-> 1,
       ambient |-> 1, roughness |-> 0, surfaceColor |-> 1, overlaySample |-> 4,
       lights |-> [ShadeDefaultLights EXCEPT ![k] = l]] :
        n \in {-2, 1}, w \in Coords, c \in {0 - (MaxCoord + 1), MaxCoord + 1},
        k \in 1..ShaderLightCount, l \in LightInputs} :
     \A i \in 1..ShaderLightCount :
        in.lights[i].type = LIGHT_TYPE_POINT => in.lights[i].position # in.worldPosition}

NoShade == [shader |-> "none", start |-> 0, lights |-> <<>>, color |-> Rat(0)]

\* Faulty variant of Attenuate: the difference is not saturated.
Attenuate_NoSaturate(light, worldPosition) ==
  LET dist == light.position - worldPosition
      r2 == light.range * light.range
      a == r2 - dist * dist
  IN  [num |-> a * a, den |-> r2 * r2]

\* Attenuate: saturate(1 - dist^2 / range^2), squared.
Attenuate(light, worldPosition) ==
  LET dist == light.position - worldPosition
      r2 == light.range * light.range
      a == IF r2 - dist * dist < 0 THEN 0 ELSE r2 - dist * dist
  IN  [num |-> a * a, den |-> r2 * r2]

\* calculateDiffuseTerm of the lit shaders that use light.direction as it is.
calculateDiffuseTerm(input, light, surfaceColor) ==
  saturate(dot(input.normal, 0 - light.direction))
    * light.color * light.intensity * surfaceColor

\* calculateDiffuseTerm of the normal-map shader: light.direction normalized.
NormalMaps_calculateDiffuseTerm(input, light, surfaceColor) ==
  saturate(dot(input.normal, 0 - normalize(light.direction)))
    * light.color * light.intensity * surfaceColor

\* phongSpecular of the 5-light shaders: light.direction normalized.
phongSpecular(input, light) ==
  LET view == normalize(input.cameraPos - input.worldPosition)
      reflection == reflect(normalize(light.direction), input.normal)
      specularExponent == (1 - input.roughness) * MAX_SPECULAR_EXPONENT
  IN  pow(saturate(dot(reflection, view)), specularExponent)

\* phongSpecular of the 4-light and single-light shaders.
Phong_phongSpecular(input, light) ==
  LET view == normalize(input.cameraPos - input.worldPosition)
      reflection == reflect(light.direction, input.normal)
      specularExponent == (1 - input.roughness) * MAX_SPECULAR_EXPONENT
  IN  pow(saturate(dot(reflection, view)), specularExponent)

\* normalize((float3) colorTint * ambient)
AmbientTerm(input) == normalize(input.colorTint * input.ambient)

\* Faulty variant of NormalMaps_constructLight: every light is attenuated.
NormalMaps_constructLight_AlwaysAttenuate(input, light) ==
  RatMul(Rat(NormalMaps_calculateDiffuseTerm(input, light, input.colorTint)
             + phongSpecular(input, light)),
         Attenuate(light, input.worldPosition))

\* constructLight of the normal-map shader.
NormalMaps_constructLight(input, light) ==
  LET diffuseTerm == NormalMaps_calculateDiffuseTerm(input, light, input.colorTint)
      specular == phongSpecular(input, light)
      finalLight == Rat(diffuseTerm + specular)
  IN  IF light.type = LIGHT_TYPE_POINT
      THEN RatMul(finalLight, Attenuate(light, input.worldPosition))
      ELSE finalLight

\* constructLight of the 5-light shader kept with the Meshes sources.
FiveLights_constructLight(input, light) ==
  LET ambientTerm == AmbientTerm(input)
      diffuseTerm == calculateDiffuseTerm(input, light, input.colorTint)
      specular == phongSpecular(input, light)
      finalLight == Rat(ambientTerm * diffuseTerm + specular)
  IN  IF light.type = LIGHT_TYPE_POINT
      THEN RatMul(finalLight, Attenuate(light, input.worldPosition))
      ELSE finalLight

\* constructLight of the 4-light shader.
FourLights_constructLight(input, light) ==
  LET ambientTerm == AmbientTerm(input)
      diffuseTerm == calculateDiffuseTerm(input, light, input.colorTint)
      specular == Phong_phongSpecular(input, light)
  IN  Rat(ambientTerm * (diffuseTerm + specular))

\* The light handed to constructLight by the loop of a 5-light main: a point
\* light gets the direction from the light to the pixel.
EditableLight(input, light) ==
  IF light.type = LIGHT_TYPE_POINT
  THEN [light EXCEPT !.direction = input.worldPosition - light.position]
  ELSE light

RECURSIVE RatSum(_)
RatSum(q) == IF q = <<>> THEN Rat(0) ELSE RatAdd(Head(q), RatSum(Tail(q)))

\* main of the normal-map shader with a flat normal map; finalLight starts
\* at whatever the uninitialised local holds.
NormalMaps_main(input, start) ==
  LET in == [input EXCEPT !.normal = normalize(input.normal)]
      ls == [i \in 1..ShaderLightCount |->
               NormalMaps_constructLight(in, EditableLight(in, in.lights[i]))]
      finalLight == RatMul(RatAdd(Rat(start), RatSum(ls)), Rat(AmbientTerm(in)))
  IN  [shader |-> "NormalMaps", start |-> start, lights |-> ls,
       color |-> RatMul(Rat(in.surfaceColor), finalLight)]

\* main of the 5-light shader kept with the Meshes sources.
FiveLights_main(input, start) ==
  LET in == [input EXCEPT !.normal = normalize(input.normal)]
      ls == [i \in 1..ShaderLightCount |->
               FiveLights_constructLight(in, EditableLight(in, in.lights[i]))]
      finalLight == RatAdd(Rat(start), RatSum(ls))
      overlayColor == in.overlaySample \div 4
  IN  [shader |-> "FiveLights", start |-> start, lights |-> ls,
       color |-> RatAdd(RatMul(Rat(in.surfaceColor), finalLight),
                        Rat(0 - overlayColor))]

\* main of the 4-light shader: yellowLightD, cyanLightD, magentaLightD and
\* redLightP are lights[0..3]; three of them are summed.
FourLights_main(input) ==
  LET in == [input EXCEPT !.normal = normalize(input.normal)]
      \* redLightP.direction = input.worldPosition; the light is not used
      redLightP == [in.lights[4] EXCEPT !.direction = in.worldPosition]
      ls == [i \in 1..3 |-> FourLights_constructLight(in, in.lights[i])]
  IN  [shader |-> "FourLights", start |-> 0, lights |-> ls, color |-> RatSum(ls)]

\* main of the single-light shader: yellowLightD is lights[0].
SingleLight_main(input) ==
  LET in == [input EXCEPT !.normal = normalize(input.normal)]
      ambientTerm == AmbientTerm(in)
      diffuseTerm == calculateDiffuseTerm(in, in.lights[1], in.colorTint)
      specular == Phong_phongSpecular(in, in.lights[1])
      finalLight == Rat(ambientTerm * diffuseTerm + specular)
  IN  [shader |-> "SingleLight", start |-> 0, lights |-> <<finalLight>>,
       color |-> finalLight]

Shade_NormalMaps ==
  /\ shOut = NoShade
  /\ \E g \in GarbageColors : shOut' = NormalMaps_main(shIn, g)
  /\ UNCHANGED <<envVars, pc, idx, gameVars, gpuVars, shIn>>

Shade_FiveLights ==
  /\ shOut = NoShade
  /\ \E g \in GarbageColors : shOut' = FiveLights_main(shIn, g)
  /\ UNCHANGED <<envVars, pc, idx, gameVars, gpuVars, shIn>>

Shade_FourLights ==
  /\ shOut = NoShade
  /\ shOut' = FourLights_main(shIn)
  /\ UNCHANGED <<envVars, pc, idx, gameVars, gpuVars, shIn>>

Shade_SingleLight ==
  /\ shOut = NoShade
  /\ shOut' = SingleLight_main(shIn)
  /\ UNCHANGED <<envVars, pc, idx, gameVars, gpuVars, shIn>>

ShadeNext ==
  \/ Shade_NormalMaps \/ Shade_FiveLights \/ Shade_FourLights \/ Shade_SingleLight

\* One pixel is shaded per behaviour; the frame loop stands still.
ShadeInit ==
  /\ GameInit
  /\ version = "Lights" /\ faulty = FALSE /\ activeCamera = 0
  /\ shIn \in ShadeInputs
  /\ shOut = NoShade

SpecShade == ShadeInit /\ [][ShadeNext]_vars

\* ----------------------------------------------------------------- claims
\* Positions of Draw at which cmds holds calls of the running Draw.
Drawing == pc \in {"DrawGeometry", "DrawEntities", "ShadowBegin", "ShadowEntities",
                   "ShadowEnd", "DrawSky", "PostRender", "DrawUI", "Present"}
\* The Draw of frame `frame` has returned and nothing ran since.
DrawReturned == pc = "Update" /\ frame >= 1
Calls(op, what) == {k \in DOMAIN cmds : cmds[k].op = op /\ cmds[k].what = what}
AllDraws == {k \in DOMAIN cmds : cmds[k].op = "Draw"}

\* C1: every entity draw call of the running Draw runs with constants that
\* ConstructShaderData copied to the GPU in this frame for this very
\* entity: its own world matrix and the active camera's view and projection.
C1_OwnConstantsPerDraw ==
  (Drawing /\ version \in {"Camera", "Lights", "Shadows"}) =>
    /\ \A k \in Calls("Draw", "entity") :
         LET d == cmds[k] IN
           /\ d.cb.owner = d.id
           /\ d.cb.world = entities[d.id].world
           /\ d.cb.view = cameras[activeCamera + 1].view
           /\ d.cb.proj = cameras[activeCamera + 1].proj
           /\ d.cb.stamp = frame
    /\ pc \in {"DrawSky", "PostRender", "DrawUI", "Present"} =>
         {cmds[k].id : k \in Calls("Draw", "entity")} = DOMAIN entities

\* C1 witness: in the second frame of the lights revision, with another
\* camera active, the last entity has been drawn after its world matrix
\* changed since the previous frame.
C1_Witness ==
  /\ version = "Lights" /\ pc = "DrawUI" /\ frame = 2
  /\ activeCamera = 1
  /\ Cardinality(Calls("Draw", "entity")) = NumEntitiesLights
  /\ entities[1].world = 2

\* C2: a Draw clears the back buffer and the depth buffer exactly once and
\* before any draw call, and calls Present exactly once, after every
\* geometry draw and after the ImGui draw.
C2_ClearOnceFirstPresentOnceLast ==
  /\ Drawing =>
       /\ Cardinality(Calls("Clear", "back")) = 1
       /\ Cardinality(Calls("Clear", "depth")) = 1
       /\ \A k \in AllDraws : \A c \in Calls("Clear", "back") \cup Calls("Clear", "depth") : c < k
       /\ Calls("Present", "back") = {}
  /\ DrawReturned =>
       /\ Cardinality(Calls("Clear", "back")) = 1
       /\ Cardinality(Calls("Clear", "depth")) = 1
       /\ Calls("Present", "back") = {Len(cmds)}
       /\ Cardinality(Calls("Draw", "ui")) = 1
       /\ \A k \in AllDraws : \A c \in Calls("Clear", "back") \cup Calls("Clear", "depth") : c < k
       /\ IF version = "Meshes"
          THEN {cmds[k].id : k \in Calls("Draw", "mesh")} = 1..NumMeshes
          ELSE {cmds[k].id : k \in Calls("Draw", "entity")} = DOMAIN entities

\* C2 witness: a second Draw has returned in the shadow revision.
C2_Witness ==
  /\ DrawReturned /\ version = "Shadows" /\ frame = 2
  /\ Calls("Present", "back") = {Len(cmds)}

\* C3: with isBlurry the entities and the sky are drawn into the blur
\* texture, then exactly two full-screen passes run in order (blur: blur
\* texture -> invert texture; invert: invert texture -> back buffer);
\* without isBlurry no pass runs and entities and sky go to the back buffer.
ScenePainted(c) == c.ents = DOMAIN entities /\ c.sky
C3_PostProcessChain ==
  (DrawReturned /\ version = "Shadows") =>
    LET scene == Calls("Draw", "entity") \cup Calls("Draw", "sky")
        passes == Calls("Draw", "blur") \cup Calls("Draw", "invert")
        shown == cmds[Len(cmds)].shown
    IN IF isBlurry
       THEN /\ \A k \in scene : cmds[k].rtv = "blur"
            /\ \E b \in Calls("Draw", "blur") : \E i \in Calls("Draw", "invert") :
                 /\ passes = {b, i}
                 /\ b < i
                 /\ \A k \in scene : k < b
                 /\ cmds[b].input = "blur" /\ cmds[b].rtv = "invert"
                 /\ cmds[b].ps = "blurPixelShader" /\ "blur" \in cmds[b].srv
                 /\ cmds[i].input = "invert" /\ cmds[i].rtv = "back"
                 /\ cmds[i].ps = "invertPixelShader" /\ "invert" \in cmds[i].srv
            /\ ScenePainted(shown) /\ shown.filters = <<"blur", "invert">>
       ELSE /\ passes = {}
            /\ \A k \in scene : cmds[k].rtv = "back"
            /\ ScenePainted(shown) /\ shown.filters = <<>>

\* C3 witness: the second Draw returned after a blurred frame whose blur
\* texture holds that frame's scene.
C3_Witness ==
  /\ DrawReturned /\ version = "Shadows" /\ frame = 2 /\ isBlurry
  /\ cmds[Len(cmds)].shown.filters = <<"blur", "invert">>
  /\ tex["blur"].frame = 2 /\ tex["blur"].sky

\* C4 (as claimed): the light view matrix used by the shadow pass and by
\* the main pass is the one derived from lights[0].direction as it stands
\* in the frame.
C4_ShadowViewFollowsLight ==
  (Drawing /\ version = "Shadows") =>
    \A k \in Calls("Draw", "shadow") \cup Calls("Draw", "entity") :
      cmds[k].cb.lightView = XMMatrixLookToLH(lights[1].direction)

\* C5: when a main-pass entity is drawn, the shadow map was cleared in this
\* Draw and every entity was drawn into it after the clear; the map the
\* pixel shader samples holds this frame's depth of every entity, rendered
\* from the world matrices the main pass uses.
C5_ShadowMapIsOfThisFrame ==
  (Drawing /\ version = "Shadows") =>
    \A k \in Calls("Draw", "entity") :
      /\ \E c \in Calls("Clear", "shadowMap") :
           /\ c < k
           /\ \A e \in DOMAIN entities :
                \E m \in Calls("Draw", "shadow") :
                  /\ c < m /\ m < k
                  /\ cmds[m].id = e /\ cmds[m].dsv = "shadowMap"
                  /\ cmds[m].cb.world = entities[e].world
      /\ cmds[k].shadow.frame = frame
      /\ cmds[k].shadow.drawn = {<<e, entities[e].world>> : e \in DOMAIN entities}
      /\ cmds[k].cb.world = entities[cmds[k].id].world

\* C5 witness: the main pass of the second frame has drawn its first entity,
\* whose depth in the shadow map differs from the previous frame's.
C5_Witness ==
  /\ version = "Shadows" /\ pc = "DrawEntities" /\ frame = 2 /\ idx = 2
  /\ <<1, 4>> \in shadowMap.drawn

\* C8: from CreateGeometry on, the lights revision holds exactly 5 lights,
\* the size of the shader's lights array: 3 directional lights, then 2
\* point lights, with as many names; every ConstructShaderData copies
\* exactly these 5 lights.
C8_FiveLights ==
  (version = "Lights" /\ pc # "preinit") =>
    /\ Len(lights) = ShaderLightCount
    /\ Len(lightNames) = Len(lights)
    /\ \A i \in 1..3 : lights[i].type = LIGHT_TYPE_DIRECTIONAL
    /\ \A i \in 4..5 : lights[i].type = LIGHT_TYPE_POINT
    /\ Drawing => \A k \in Calls("Draw", "entity") :
                    /\ Len(cmds[k].pcb.lights) = ShaderLightCount
                    /\ cmds[k].pcb.lights = lights

\* C8 witness: light sliders were dragged in two frames and the second
\* frame's entities have been drawn.
C8_Witness ==
  /\ version = "Lights" /\ pc = "DrawUI" /\ frame = 2
  /\ lights[1].direction = 2 /\ lights[5].position = 2
  /\ Cardinality(Calls("Draw", "entity")) = NumEntitiesLights

\* C10: an OnResize before Initialize (no cameras) changes nothing of Game;
\* an OnResize after Initialize gives every camera the projection of the
\* new aspect ratio and keeps activeCamera and the number of cameras.
C10_OnResizeSafe ==
  [][(Camera_OnResize \/ Lights_OnResize \/ Shadow_OnResize) =>
       IF Len(cameras) = 0
       THEN UNCHANGED gameVars
       ELSE /\ \A c \in DOMAIN cameras' : cameras'[c].proj = winSize'
            /\ \A c \in DOMAIN cameras' : cameras'[c].view = cameras[c].view
            /\ Len(cameras') = Len(cameras)
            /\ activeCamera' = activeCamera
            /\ UNCHANGED <<entities, lights, lightNames, isBlurry>>]_vars

\* C10 witness: the window was resized after Initialize (the post-process
\* textures still have the size of Initialize) while another camera is
\* active, and every camera has the new projection.
C10_Witness ==
  /\ version = "Shadows" /\ pc = "Update"
  /\ ppSize = 1 /\ winSize = 2
  /\ activeCamera = 2
  /\ Len(cameras) = NumCameras
  /\ \A c \in DOMAIN cameras : cameras[c].proj = 2

\* The pixel, as main hands it to the lighting functions.
ShadedPixel == [shIn EXCEPT !.normal = normalize(shIn.normal)]
\* The diffuse and the specular term the shader of shOut computes for a light.
DiffuseOf(light) ==
  IF shOut.shader = "NormalMaps"
  THEN NormalMaps_calculateDiffuseTerm(ShadedPixel, light, shIn.colorTint)
  ELSE calculateDiffuseTerm(ShadedPixel, light, shIn.colorTint)
SpecularOf(light) ==
  IF shOut.shader \in {"NormalMaps", "FiveLights"}
  THEN phongSpecular(ShadedPixel, light)
  ELSE Phong_phongSpecular(ShadedPixel, light)

\* C6: the colour one light contributes (constructLight of the 4-light and
\* of the 5-light shader, main of the single-light shader) is the sum
\* ambient + diffuse + specular of its three terms; lights that are not
\* point lights are looked at, so that attenuation plays no part.
C6_AmbientPlusDiffusePlusSpecular ==
  shOut.shader \in {"FourLights", "FiveLights", "SingleLight"} =>
    \A i \in DOMAIN shOut.lights :
      LET light == shIn.lights[i] IN
        light.type # LIGHT_TYPE_POINT =>
          RatEq(shOut.lights[i],
                Rat(AmbientTerm(ShadedPixel) + DiffuseOf(light) + SpecularOf(light)))

\* C7: in the 5-light shaders a point light contributes its diffuse and
\* specular terms, taken for the direction worldPosition - position, times
\* the attenuation, whatever its stored direction; any other light
\* contributes them for its stored direction, unattenuated, whatever its
\* position and range.
C7_AttenuationIffPoint ==
  shOut.shader \in {"NormalMaps", "FiveLights"} =>
    \A i \in 1..ShaderLightCount :
      LET light == shIn.lights[i]
          toPixel == [light EXCEPT !.direction = shIn.worldPosition - light.position]
          a == IF shOut.shader = "NormalMaps" THEN 1 ELSE AmbientTerm(ShadedPixel)
          Unattenuated(l) == Rat(a * DiffuseOf(l) + SpecularOf(l))
          Same(other) ==
            shOut.lights[i] =
              IF shOut.shader = "NormalMaps"
              THEN NormalMaps_constructLight(ShadedPixel, EditableLight(ShadedPixel, other))
              ELSE FiveLights_constructLight(ShadedPixel, EditableLight(ShadedPixel, other))
      IN  IF light.type = LIGHT_TYPE_POINT
          THEN /\ RatEq(shOut.lights[i],
                        RatMul(Unattenuated(toPixel), Attenuate(light, shIn.worldPosition)))
               /\ \A d \in Directions : Same([light EXCEPT !.direction = d])
          ELSE /\ RatEq(shOut.lights[i], Unattenuated(light))
               /\ \A p \in Coords, r \in Ranges :
                    Same([light EXCEPT !.position = p, !.range = r])

\* C7 witness: the normal-map shader shaded a pixel lit by a point light at
\* distance 1 with range 2 whose stored direction points away from the
\* pixel: the light contributes 9/16 of its diffuse term.
C7_Witness ==
  /\ shOut.shader = "NormalMaps"
  /\ shIn.worldPosition = 0 /\ shIn.normal = 1 /\ shIn.cameraPos = 0 - (MaxCoord + 1)
  /\ shIn.lights[2] = NewLight(LIGHT_TYPE_POINT, 1, 1, 2)
  /\ shOut.lights[2] = [num |-> 9, den |-> 16]

\* C9: a failed graphics-API call changes nothing of what Initialize, Update
\* and Draw go on to do: the frame loop never stops because of it.
C9_FailureChangesNoStep == failed # {} => pc # "crashed"

\* C11: once Initialize has run, activeCamera indexes an existing camera
\* wherever Update, BuildUI and ConstructShaderData dereference
\* cameras[activeCamera], whatever camera buttons were pressed.
C11_ActiveCameraInRange ==
  (version \in {"Camera", "Lights", "Shadows"} /\ pc \notin {"preinit", "crashed"}) =>
    /\ 0 <= activeCamera /\ activeCamera < Len(cameras)
    /\ Drawing => \A k \in Calls("Draw", "entity") :
                    0 <= cmds[k].cb.camera /\ cmds[k].cb.camera < Len(cameras)

\* C11 witness: "Previous" was pressed on camera 0 and the entities of that
\* frame are being drawn with the last camera.
C11_Witness ==
  /\ version = "Camera" /\ pc = "DrawEntities" /\ frame = 1 /\ idx = 3
  /\ activeCamera = NumCameras - 1

\* k presses of one camera button, starting at camera a of n.
RECURSIVE Presses(_, _, _, _)
Presses(kind, a, n, k) ==
  IF k = 0 THEN a ELSE Presses(kind, CameraButtons(Event(kind, 0), a, n), n, k - 1)

\* C12: with n cameras "Next" leads from camera a to (a + 1) mod n and
\* "Previous" to (a - 1) mod n; one after the other restores a, and n presses
\* of one button return to a.
C12_ButtonsAreModular ==
  (version \in {"Camera", "Lights", "Shadows"} /\ pc \notin {"preinit", "crashed"}) =>
    LET n == Len(cameras)
        Btn(kind, a) == CameraButtons(Event(kind, 0), a, n)
    IN  /\ Btn("next", activeCamera) = (activeCamera + 1) % n
        /\ Btn("prev", activeCamera) = (activeCamera + n - 1) % n
        /\ \A a \in 0..(n - 1) :
             /\ Btn("prev", Btn("next", a)) = a
             /\ Btn("next", Btn("prev", a)) = a
             /\ Presses("next", a, n, n) = a
             /\ Presses("prev", a, n, n) = a

\* C12 witness: after two frames of Update the second camera is active
\* (one press of "Next", or two of "Previous" over the wrap-around).
C12_Witness ==
  /\ version = "Lights" /\ pc = "Update" /\ frame = 2
  /\ activeCamera = 1 /\ Len(cameras) = NumCameras

\* A texture is bound as render or depth target and as pixel shader
\* resource at once in pipeline state c.
Hazard(c) == c.rtv \in c.srv \/ c.dsv \in c.srv

\* C13: in the shadow revision the blur texture, the invert texture and
\* the shadow map are never bound as a target while bound as a pixel shader
\* resource: not between the steps of the frame loop, not in any draw call
\* and not between the binding calls of PostRender.
C13_NoTargetBoundAsResource ==
  version = "Shadows" =>
    /\ ~Hazard(ctx)
    /\ \A k \in AllDraws : ~Hazard(cmds[k])
    /\ pc = "PostRender" => \A i \in 1..4 : ~Hazard(PostRenderStates(ctx)[i])

\* C13 witness: in the second frame the post-process passes have run, so
\* blur texture, invert texture and shadow map are all bound as resources
\* while the back buffer is the target.
C13_Witness ==
  /\ version = "Shadows" /\ pc = "DrawUI" /\ frame = 2 /\ isBlurry
  /\ {"blur", "invert", "shadowMap"} \subseteq ctx.srv
  /\ ctx.rtv = "back"

\* C14: in the shadow revision every entity of the main pass is drawn with
\* the viewport of the window, the default rasterizer state, the blur
\* target if isBlurry and the back buffer otherwise, the main depth buffer
\* and the vertex and pixel shader of its material; when the entity loop
\* starts the pipeline already has that viewport, rasterizer and targets.
C14_NoShadowPassLeak ==
  version = "Shadows" =>
    LET MainPass(c) ==
          /\ c.viewport = WindowViewport(winSize)
          /\ c.rs = "default"
          /\ c.rtv = (IF isBlurry THEN "blur" ELSE "back")
          /\ c.dsv = "depth"
    IN  /\ (pc = "DrawEntities" => MainPass(ctx))
        /\ Drawing => \A k \in Calls("Draw", "entity") :
                        /\ MainPass(cmds[k])
                        /\ cmds[k].vs = "vertexShader"
                        /\ cmds[k].ps = "pixelShader"

\* C14 witness: after a resize, the first entity of a blurred second frame
\* has been drawn behind a shadow pass of all entities.
C14_Witness ==
  /\ version = "Shadows" /\ pc = "DrawEntities" /\ idx = 2
  /\ frame = 2 /\ isBlurry /\ winSize = 2
  /\ Cardinality(Calls("Draw", "shadow")) = NumEntitiesShadows
  /\ \E k \in Calls("Draw", "entity") : cmds[k].viewport = WindowViewport(2)

\* C15: when a Draw has returned, and so when the next Draw starts, the
\* back buffer is bound as render target together with the main depth
\* buffer, and the last call of that Draw was Present; this holds in every
\* revision, also after PostRender bound targets without a depth buffer.
C15_DrawEndsOnBackBuffer ==
  /\ (DrawReturned \/ pc = "DrawClear") => (ctx.rtv = "back" /\ ctx.dsv = "depth")
  /\ DrawReturned => (cmds # <<>> /\ cmds[Len(cmds)].op = "Present")

\* C15 witness: the first Draw of the shadow revision returned after
\* PostRender ran its two passes, which bind no depth buffer.
C15_Witness ==
  /\ version = "Shadows" /\ DrawReturned /\ frame = 1 /\ isBlurry
  /\ \E k \in Calls("Draw", "invert") : cmds[k].dsv = "none" /\ cmds[k].rtv = "back"
  /\ ctx.dsv = "depth"

\* C16: in the shadow revision the ImGui draw of a frame is the last draw
\* call of the frame and runs with the back buffer bound, with isBlurry on
\* (then behind both post-process passes) and off; the blur and the invert
\* texture never hold UI pixels, and the presented frame shows the UI.
C16_UIOnBackBufferLast ==
  version = "Shadows" =>
    /\ ~tex["blur"].ui /\ ~tex["invert"].ui
    /\ \A k \in Calls("Draw", "ui") :
         /\ cmds[k].rtv = "back"
         /\ \A j \in AllDraws : j <= k
         /\ (isBlurry /\ (Drawing \/ DrawReturned)) =>
               /\ \E j \in Calls("Draw", "blur") : j < k
               /\ \E j \in Calls("Draw", "invert") : j < k
    /\ (pc = "Present" \/ DrawReturned) =>
         /\ Cardinality(Calls("Draw", "ui")) = 1
         /\ tex["back"].ui
    /\ \A k \in DOMAIN cmds : cmds[k].op = "Present" => cmds[k].shown.ui

\* C16 witness: the UI of a blurred second frame has been drawn over the
\* blurred and inverted scene in the back buffer.
C16_Witness ==
  /\ version = "Shadows" /\ pc = "Present" /\ frame = 2 /\ isBlurry
  /\ tex["back"].ui /\ tex["back"].filters = <<"blur", "invert">>
  /\ tex["back"].sky

\* C17: in the shadow revision the blur and the invert render target have
\* the window's current size at all times after Initialize, so that the
\* pixelWidth and pixelHeight PostRender derives from the window size are
\* those of one texel of the texture the blur pass reads.
C17_PostProcessTargetsWindowSized ==
  (version = "Shadows" /\ pc # "preinit") => ppSize = winSize

\* C18: once an Update has run, the world matrix of every entity is the one
\* of its current transform (nothing changed the transform after
\* SetWorldMatrices), and every entity draw of the following Draw sends the
\* world matrix of the entity's current transform.
C18_WorldMatricesUpToDate ==
  (version \in {"Camera", "Lights", "Shadows"} /\ frame >= 1 /\ pc # "crashed") =>
    /\ \A i \in DOMAIN entities :
         entities[i].world = entities[i].transform /\ ~entities[i].dirty
    /\ Drawing => \A k \in Calls("Draw", "entity") :
                    cmds[k].cb.world = entities[cmds[k].id].transform

\* C18 witness: in the camera revision the first entity was dragged with
\* its slider and rotated in each of two frames, and it has been drawn with
\* the world matrix of the resulting transform.
C18_Witness ==
  /\ version = "Camera" /\ pc = "DrawEntities" /\ frame = 2 /\ idx = 2
  /\ entities[1].transform = 4
  /\ \E k \in Calls("Draw", "entity") : cmds[k].id = 1 /\ cmds[k].cb.world = 4

\* distance(a, b) on one axis
Distance(a, b) == IF a < b THEN b - a ELSE a - b

\* C19: for every light (range > 0) and the shaded pixel, Attenuate lies in
\* [0, 1], is 1 at distance 0 and 0 at every distance not below the range,
\* and is not larger at a pixel farther from the light; a point light out of
\* range contributes nothing in the 5-light shaders.
C19_AttenuateBounded ==
  shOut.shader # "none" =>
    \A i \in 1..ShaderLightCount :
      LET light == shIn.lights[i]
          w == shIn.worldPosition
          att == Attenuate(light, w)
          dist == Distance(light.position, w)
      IN  /\ att.den > 0 /\ 0 <= att.num /\ att.num <= att.den
          /\ dist = 0 => att.num = att.den
          /\ dist >= light.range => att.num = 0
          /\ \A w2 \in Coords :
               Distance(light.position, w2) >= dist =>
                 RatLeq(Attenuate(light, w2), att)
          /\ (shOut.shader \in {"NormalMaps", "FiveLights"}
                /\ light.type = LIGHT_TYPE_POINT /\ dist >= light.range) =>
               shOut.lights[i].num = 0

\* C19 witness: a 5-light shader shaded a pixel that faces a point light
\* two units away with range 1, which contributes nothing, while the point
\* light one unit away with range MaxRange contributes.
C19_Witness ==
  /\ shOut.shader = "FiveLights"
  /\ shIn.worldPosition = -1 /\ shIn.normal = 1 /\ shIn.cameraPos = 0 - (MaxCoord + 1)
  /\ shIn.lights[2] = NewLight(LIGHT_TYPE_POINT, 1, 1, 1)
  /\ shOut.lights[2].num = 0
  /\ shOut.lights[5].num > 0

\* C20: the colour the 4-light shader returns is the sum of the
\* contributions of yellowLightD, cyanLightD, magentaLightD and of the point
\* light redLightP, the latter taken for the direction from the light to
\* the pixel and attenuated by the distance.
C20_AllFourLightsContribute ==
  shOut.shader = "FourLights" =>
    LET red == shIn.lights[4]
        redAtPixel == [red EXCEPT !.direction = shIn.worldPosition - red.position]
        redPart == RatMul(FourLights_constructLight(ShadedPixel, redAtPixel),
                          Attenuate(red, shIn.worldPosition))
        directional == [i \in 1..3 |->
                          FourLights_constructLight(ShadedPixel, shIn.lights[i])]
    IN  RatEq(shOut.color, RatAdd(RatSum(directional), redPart))

=============================================================================
